---- MODULE Spec2Model ----
(***************************************************************************)
(* Model of the cleaning pipeline of src/app.py (class DataCleaner).       *)
(*                                                                         *)
(* Text is a sequence of characters (one-character strings; FWAT and       *)
(* FWYEN stand for the code points U+FF20 and U+FFE5), so that strip,      *)
(* lower, replace and the regular expressions are computed, not assumed.   *)
(* A cell is null, text or a number; a number is mantissa m over 10^e.     *)
(*                                                                         *)
(* The body of the number branch of clean_dataframe (lines 502-513) is     *)
(* read as nested under the `if` of line 501, as its comments say.         *)
(***************************************************************************)
EXTENDS Integers, Sequences, FiniteSets, TLC

VARIABLES
    pc,            \* position of clean_dataframe: idle / cols / salary / returned / raised
    heap,          \* table objects: id -> [columns, data]
    df,            \* id of the caller's input table (0: none)
    df_cleaned,    \* id bound to df_cleaned (line 492)
    df_original,   \* id bound to df_original (line 493)
    field_types,   \* the type map given to clean_dataframe
    colIdx,        \* position of the loop of line 495 in df.columns
    lists,         \* list objects: id -> sequence of log entries
    cleaning_log,  \* id bound to self.cleaning_log
    held_log,      \* id of the log the caller kept from the previous return (0: none)
    held_snapshot, \* what the kept log held when it was returned
    input_snapshot,\* the input table as it was at invocation
    produced,      \* the entries appended since the invocation began
    clock,         \* what datetime.now() yields during the invocation
    calls,         \* invocations made on this instance
    writes,        \* caller writes made to returned tables
    cell_in,       \* a direct call of a cleaning routine: its arguments
    cell_out,      \* ... and its outcome
    series,        \* a call of detect_type: the named column it is given
    detected       \* ... and the tag it returned ("none" before the call)

vars == << pc, heap, df, df_cleaned, df_original, field_types, colIdx, lists,
           cleaning_log, held_log, held_snapshot, input_snapshot, produced,
           clock, calls, writes, cell_in, cell_out, series, detected >>

pipeVars == << pc, heap, df, df_cleaned, df_original, field_types, colIdx, lists,
               cleaning_log, held_log, held_snapshot, input_snapshot, produced,
               clock, calls, writes >>

cellVars == << cell_in, cell_out >>

detVars == << series, detected >>

----------------------------------------------------------------------------
(* Bounds of the model *)

MaxRows == 2
MaxCalls == 2
MaxWrites == 1
MaxLen == 10

----------------------------------------------------------------------------
(* Characters and text *)

Digits == {"0", "1", "2", "3", "4", "5", "6", "7", "8", "9"}

Whitespace == {" ", "\t", "\n"}

UpperAlpha == << "A", "B", "C", "D", "E", "F", "G", "H", "I", "J", "K", "L", "M",
                 "N", "O", "P", "Q", "R", "S", "T", "U", "V", "W", "X", "Y", "Z" >>

LowerAlpha == << "a", "b", "c", "d", "e", "f", "g", "h", "i", "j", "k", "l", "m",
                 "n", "o", "p", "q", "r", "s", "t", "u", "v", "w", "x", "y", "z" >>

LowerChar(c) ==
    IF \E i \in DOMAIN UpperAlpha : UpperAlpha[i] = c
    THEN LowerAlpha[CHOOSE i \in DOMAIN UpperAlpha : UpperAlpha[i] = c]
    ELSE c

\* str.lower()
Lower(s) == [i \in 1..Len(s) |-> LowerChar(s[i])]

\* str.strip()
Strip(s) ==
    LET keep == {i \in 1..Len(s) : s[i] \notin Whitespace}
    IN  IF keep = {} THEN << >>
        ELSE LET lo == CHOOSE i \in keep : \A j \in keep : i <= j
                 hi == CHOOSE i \in keep : \A j \in keep : j <= i
             IN  SubSeq(s, lo, hi)

\* str.replace(c, '')
\* RemoveChar that removes nothing
RemoveChar_none(s, c) == s

RemoveChar(s, c) == SelectSeq(s, LAMBDA x : x # c)

\* str.replace(a, b) for single characters
ReplaceChar(s, a, b) == [i \in 1..Len(s) |-> IF s[i] = a THEN b ELSE s[i]]

\* sub in s
Contains(s, sub) ==
    \E i \in 1..(Len(s) - Len(sub) + 1) : SubSeq(s, i, i + Len(sub) - 1) = sub

AllDigits(s) == \A i \in 1..Len(s) : s[i] \in Digits

DigitVal(c) ==
    CASE c = "0" -> 0 [] c = "1" -> 1 [] c = "2" -> 2 [] c = "3" -> 3 [] c = "4" -> 4
      [] c = "5" -> 5 [] c = "6" -> 6 [] c = "7" -> 7 [] c = "8" -> 8 [] c = "9" -> 9

DigitChar(d) ==
    CASE d = 0 -> "0" [] d = 1 -> "1" [] d = 2 -> "2" [] d = 3 -> "3" [] d = 4 -> "4"
      [] d = 5 -> "5" [] d = 6 -> "6" [] d = 7 -> "7" [] d = 8 -> "8" [] d = 9 -> "9"

RECURSIVE DigitsToNat(_)
\* int() of a run of digits
DigitsToNat(s) ==
    IF s = << >> THEN 0
    ELSE 10 * DigitsToNat(SubSeq(s, 1, Len(s) - 1)) + DigitVal(s[Len(s)])

RECURSIVE NatToDigits(_)
NatToDigits(n) ==
    IF n < 10 THEN << DigitChar(n) >>
    ELSE Append(NatToDigits(n \div 10), DigitChar(n % 10))

RECURSIVE Pow10(_)
Pow10(e) == IF e = 0 THEN 1 ELSE 10 * Pow10(e - 1)

\* zfill that pads nothing
zfill2_none(s) == s

\* str.zfill(2)
zfill2(s) == IF Len(s) < 2 THEN << "0" >> \o s ELSE s

----------------------------------------------------------------------------
(* Cells *)

Null == [t |-> "null"]

Str(s) == [t |-> "str", s |-> s]

RECURSIVE Normal(_, _)
\* the value m / 10^e with no trailing zero in the fraction
Normal(m, e) == IF e > 0 /\ m % 10 = 0 THEN Normal(m \div 10, e - 1) ELSE [m |-> m, e |-> e]

Num(m, e) == [t |-> "num", m |-> Normal(m, e).m, e |-> Normal(m, e).e]

\* pd.isna(value)
isna(v) == v.t = "null"

\* str(value): text is itself; a whole number prints its digits, another
\* number its digits around the point
str(v) ==
    IF v.t = "str" THEN v.s
    ELSE LET a    == IF v.m < 0 THEN -v.m ELSE v.m
             sign == IF v.m < 0 THEN << "-" >> ELSE << >>
             ip   == NatToDigits(a \div Pow10(v.e))
             fd   == NatToDigits(a % Pow10(v.e))
             pad  == [i \in 1..(v.e - Len(fd)) |-> "0"]
         IN  IF v.e = 0 THEN sign \o ip ELSE sign \o ip \o << "." >> \o pad \o fd

NoneStr == "None"
NoExc == "none"

----------------------------------------------------------------------------
(* The log *)

\* LogEntry recording the 0-based row_idx instead of row_idx + 1
LogEntry_zero_based(row, column, raw, cleaned, issue, rule, hint) ==
    [row |-> row - 1, column |-> column, raw |-> raw, cleaned |-> cleaned,
     issue |-> issue, rule |-> rule, hint |-> hint]

\* the dict literal appended at lines 403-408, 422-426 and 482-486
LogEntry(row, column, raw, cleaned, issue, rule, hint) ==
    [row |-> row, column |-> column, raw |-> raw, cleaned |-> cleaned,
     issue |-> issue, rule |-> rule, hint |-> hint]

\* self.cleaning_log.append(entry)
LogAppend(log, entry) == Append(log, entry)

\* self.add_log(...): class DataCleaner (lines 366-528) defines __init__,
\* clean_date, clean_numeric, clean_email and clean_dataframe only, and has no
\* base class, so evaluating the attribute raises AttributeError before
\* anything is appended
add_log(log, row_idx, col_name, raw, cleaned, issue, hint) ==
    [log |-> log, exc |-> "AttributeError"]

Unset == [t |-> "unset"]

Returned(v, log) == [ret |-> v, log |-> log, exc |-> NoExc]

Raised(e, log) == [ret |-> Unset, log |-> log, exc |-> e]

----------------------------------------------------------------------------
(* clean_date *)

\* ^\d{a}[s1]\d{b}[s2]\d{c}$ with a in As, b in Bs, c in Cs: the lengths matched
Splits(s, As, s1, Bs, s2, Cs) ==
    { p \in As \X Bs \X Cs :
        /\ Len(s) = p[1] + p[2] + p[3] + 2
        /\ AllDigits(SubSeq(s, 1, p[1]))
        /\ s[p[1] + 1] \in s1
        /\ AllDigits(SubSeq(s, p[1] + 2, p[1] + p[2] + 1))
        /\ s[p[1] + p[2] + 2] \in s2
        /\ AllDigits(SubSeq(s, p[1] + p[2] + 3, Len(s))) }

\* match.groups()
Groups(s, p) ==
    << SubSeq(s, 1, p[1]),
       SubSeq(s, p[1] + 2, p[1] + p[2] + 1),
       SubSeq(s, p[1] + p[2] + 3, Len(s)) >>

match_ymd(s) == Splits(s, {4}, {"-", "/"}, {1, 2}, {"-", "/"}, {1, 2})

match_dmy(s) == Splits(s, {1, 2}, {"-", "/"}, {1, 2}, {"-", "/"}, {4})

match_dot(s) == Splits(s, {4}, {"."}, {1, 2}, {"."}, {1, 2})

\* f"{y}-{m.zfill(2)}-{d.zfill(2)}"
IsoDate(y, m, d) == Str(y \o << "-" >> \o zfill2(m) \o << "-" >> \o zfill2(d))

\* the hint of line 407: p1-month p2-day, or p2-month p1-day
AmbiguousHint(p1, p2) == [kind |-> "ambiguous", args |-> << p1, p2, p2, p1 >>]

FixedHint(kind) == [kind |-> kind, args |-> << >>]

\* RawOf logging the stripped, lowercased text instead of the value
RawOf_transformed(value, str_val) == str_val

\* the value logged as raw by clean_date and clean_email
RawOf(value, str_val) == value

\* the branch reading every such date day first and logging nothing
clean_date_dmy_day_first(log, value, row_idx, col_name, g) ==
    Returned(IsoDate(g[3], g[2], g[1]), log)

\* the branch of lines 400-413
clean_date_dmy(log, value, row_idx, col_name, g) ==
    LET p1 == g[1]
        p2 == g[2]
        year == g[3]
    IN  IF DigitsToNat(p1) <= 12 /\ DigitsToNat(p2) <= 12
        THEN Returned(IsoDate(year, p1, p2),
                 LogAppend(log, LogEntry(row_idx + 1, col_name, RawOf(value, Str(Lower(Strip(str(value))))),
                                         IsoDate(year, p1, p2), "ambiguous_date",
                                         NoneStr, AmbiguousHint(p1, p2))))
        ELSE LET month == IF DigitsToNat(p1) <= 12 THEN p1 ELSE p2
                 day   == IF DigitsToNat(p1) <= 12 THEN p2 ELSE p1
             IN  Returned(IsoDate(year, month, day), log)

\* what clean_date returns when nothing matched (line 427)
DateFallback(value) == value

clean_date(log, now, value, row_idx, col_name) ==
    IF isna(value) THEN Returned(value, log)
    ELSE LET str_val == Lower(Strip(str(value)))
         IN  IF str_val = << "y", "e", "s", "t", "e", "r", "d", "a", "y" >>
                 THEN Returned(Str(now.yesterday), log)
             ELSE IF str_val = << "t", "o", "d", "a", "y" >>
                 THEN Returned(Str(now.today), log)
             ELSE IF match_ymd(str_val) # {}
                 THEN LET g == Groups(str_val, CHOOSE p \in match_ymd(str_val) : TRUE)
                      IN  Returned(IsoDate(g[1], g[2], g[3]), log)
             ELSE IF match_dmy(str_val) # {}
                 THEN clean_date_dmy(log, value, row_idx, col_name,
                          Groups(str_val, CHOOSE p \in match_dmy(str_val) : TRUE))
             ELSE IF match_dot(str_val) # {}
                 THEN LET g == Groups(str_val, CHOOSE p \in match_dot(str_val) : TRUE)
                      IN  Returned(IsoDate(g[1], g[2], g[3]), log)
             ELSE Returned(DateFallback(value),
                      LogAppend(log, LogEntry(row_idx + 1, col_name, RawOf(value, Str(str_val)),
                                              Null, "invalid_format", "valid_date_format",
                                              FixedHint("supported_formats"))))

----------------------------------------------------------------------------
(* clean_email *)

\* email_pattern that asks for an @ and nothing else
email_pattern_at_only(s) == \E i \in 1..Len(s) : s[i] = "@"

\* re.match(r'^[^\s@]+@[^\s@]+\.[^\s@]+$', email)
email_pattern(s) ==
    /\ \A i \in 1..Len(s) : s[i] \notin Whitespace
    /\ Cardinality({i \in 1..Len(s) : s[i] = "@"}) = 1
    /\ LET at == CHOOSE i \in 1..Len(s) : s[i] = "@"
       IN  /\ at > 1
           /\ \E p \in (at + 2)..(Len(s) - 1) : s[p] = "."

clean_email(log, value, row_idx, col_name) ==
    IF isna(value) THEN Returned(value, log)
    ELSE LET lowered == Lower(Strip(str(value)))
             email   == ReplaceChar(ReplaceChar(lowered, "#", "@"), "FWAT", "@")
         IN  IF ~ email_pattern(email)
             THEN Returned(Str(email),
                      LogAppend(log, LogEntry(row_idx + 1, col_name, RawOf(value, Str(email)),
                                              Str(email), "invalid_email",
                                              "valid_email_format",
                                              FixedHint("missing_at_or_suffix"))))
             ELSE Returned(Str(email), log)

----------------------------------------------------------------------------
(* clean_numeric *)

\* self.rules, in the order the dict was written (lines 372-377)
rules ==
    << [key |-> << "a", "g", "e" >>, min |-> 0, max |-> 120],
       [key |-> << "s", "a", "l", "a", "r", "y" >>, min |-> 0, max |-> 10000000],
       [key |-> << "p", "r", "i", "c", "e" >>, min |-> 0, max |-> 1000000],
       [key |-> << "q", "u", "a", "n", "t", "i", "t", "y" >>, min |-> 0, max |-> 100000] >>

null_keywords ==
    { << "u", "n", "k", "n", "o", "w", "n" >>,
      << "n", "o", "t", " ", "a", " ", "n", "u", "m", "b", "e", "r" >>,
      << "n", "o", "t", "_", "a", "_", "n", "u", "m", "b", "e", "r" >>,
      << "n", "a", "n" >>,
      << "n", "/", "a" >>,
      << "?" >>,
      << "n", "o", "n", "e" >>,
      << "n", "u", "l", "l" >>,
      << "-" >>,
      << "u", "n", "d", "e", "f", "i", "n", "e", "d" >> }

\* how many digits stand at s[j], s[j+1], ...
DigitRun(s, j) ==
    LET stop == {i \in j..Len(s) : s[i] \notin Digits}
    IN  IF j > Len(s) THEN 0
        ELSE IF stop = {} THEN Len(s) - j + 1
        ELSE (CHOOSE i \in stop : \A k \in stop : i <= k) - j

\* \d*\.?\d+ tried at j: the index its match ends at, 0 when it fails there
BodyEnd(s, j) ==
    LET k == DigitRun(s, j)
        f == DigitRun(s, j + k + 1)
    IN  IF j + k <= Len(s) /\ s[j + k] = "." /\ f >= 1 THEN j + k + f
        ELSE IF k >= 1 THEN j + k - 1
        ELSE 0

\* [-+]?\d*\.?\d+ tried at i
TokenEnd(s, i) ==
    IF s[i] \in {"-", "+"} /\ BodyEnd(s, i + 1) # 0 THEN BodyEnd(s, i + 1)
    ELSE BodyEnd(s, i)

\* re.search(r'[-+]?\d*\.?\d+', s).group(): the leftmost match, << >> when none
clean_num_match(s) ==
    LET starts == {i \in 1..Len(s) : TokenEnd(s, i) # 0}
    IN  IF starts = {} THEN << >>
        ELSE LET i == CHOOSE a \in starts : \A b \in starts : a <= b
             IN  SubSeq(s, i, TokenEnd(s, i))

\* float(token) of a token the pattern matched
float(tok) ==
    LET neg  == tok[1] = "-"
        body == IF tok[1] \in {"-", "+"} THEN Tail(tok) ELSE tok
        dots == {i \in 1..Len(body) : body[i] = "."}
        ip   == IF dots = {} THEN body ELSE SubSeq(body, 1, (CHOOSE i \in dots : TRUE) - 1)
        fp   == IF dots = {} THEN << >>
                ELSE SubSeq(body, (CHOOSE i \in dots : TRUE) + 1, Len(body))
        mag  == DigitsToNat(ip \o fp)
    IN  Num(IF neg THEN -mag ELSE mag, Len(fp))

\* num < bound and num > bound for a whole bound
NumLess(n, bound) == n.m < bound * Pow10(n.e)

NumGreater(n, bound) == n.m > bound * Pow10(n.e)

RECURSIVE range_check(_, _, _, _, _, _)
\* the loop of lines 460-467 from rule k on, then line 469
range_check(log, raw_str, row_idx, col_name, num, k) ==
    IF k > Len(rules) THEN Returned(num, log)
    ELSE IF ~ Contains(Lower(col_name), rules[k].key)
        THEN range_check(log, raw_str, row_idx, col_name, num, k + 1)
    ELSE IF NumLess(num, rules[k].min)
        THEN LET r == add_log(log, row_idx, col_name, Str(raw_str), Null,
                              "out_of_range", FixedHint("below_min"))
             IN  IF r.exc # NoExc THEN Raised(r.exc, r.log) ELSE Returned(Null, r.log)
    ELSE IF NumGreater(num, rules[k].max)
        THEN LET r == add_log(log, row_idx, col_name, Str(raw_str), Null,
                              "out_of_range", FixedHint("above_max"))
             IN  IF r.exc # NoExc THEN Raised(r.exc, r.log) ELSE Returned(Null, r.log)
    ELSE range_check(log, raw_str, row_idx, col_name, num, k + 1)

clean_numeric(log, value, row_idx, col_name) ==
    IF isna(value) \/ Strip(str(value)) = << >> THEN Returned(Null, log)
    ELSE LET raw_str  == Strip(str(value))
             str_val  == Lower(raw_str)
             temp_val == RemoveChar(RemoveChar(RemoveChar(str_val, "$"), "FWYEN"), ",")
             tok      == clean_num_match(temp_val)
         IN  IF str_val \in null_keywords
             THEN LET r == add_log(log, row_idx, col_name, Str(raw_str), Null,
                                   "placeholder_value", FixedHint("placeholder"))
                  IN  IF r.exc # NoExc THEN Raised(r.exc, r.log) ELSE Returned(Null, r.log)
             ELSE IF tok = << >>
             THEN LET r == add_log(log, row_idx, col_name, Str(raw_str), Null,
                                   "not_numeric", FixedHint("cannot_parse"))
                  IN  IF r.exc # NoExc THEN Raised(r.exc, r.log) ELSE Returned(Null, r.log)
             ELSE range_check(log, raw_str, row_idx, col_name, float(tok), 1)

----------------------------------------------------------------------------
(* Tables and lists as objects *)

\* a DataFrame: its column names in order and, aligned with them, its columns
Table(columns, data) == [columns |-> columns, data |-> data]

RowCount(tbl) == IF tbl.columns = << >> THEN 0 ELSE Len(tbl.data[1])

ColPos(tbl, col) == CHOOSE k \in 1..Len(tbl.columns) : tbl.columns[k] = col

\* tbl[col]
Column(tbl, col) == tbl.data[ColPos(tbl, col)]

\* tbl[col] = cells, for a column tbl has
SetColumn(tbl, col, cells) == [tbl EXCEPT !.data[ColPos(tbl, col)] = cells]

\* a write to one cell of a table
SetCell(tbl, col, i, v) == [tbl EXCEPT !.data[ColPos(tbl, col)][i] = v]

\* copy handing back the same object instead of a new one
copy_alias(h, id) == [heap |-> h, id |-> id]

\* df.copy(): a new object holding the same cells
copy(h, id) == [heap |-> Append(h, h[id]), id |-> Len(h) + 1]

\* ResetLog emptying the list in place (self.cleaning_log.clear())
ResetLog_in_place(ls, cur, held) == [lists |-> [ls EXCEPT ![cur] = << >>], id |-> cur]

\* self.cleaning_log = [] (line 491): a new list object; the list the caller
\* kept is another object
ResetLog(ls, cur, held) ==
    LET id == IF held = 1 THEN 2 ELSE 1
    IN  [lists |-> [ls EXCEPT ![id] = << >>], id |-> id]

----------------------------------------------------------------------------
(* clean_dataframe *)

\* pd.to_numeric(..., errors='coerce') on one cell, for the decimal literals
\* the inputs of this model hold: text that is not a number becomes null
to_numeric_cell(v) ==
    IF v.t # "str" THEN v
    ELSE LET s == Strip(v.s)
         IN  IF s # << >> /\ TokenEnd(s, 1) = Len(s) THEN float(s) ELSE Null

to_numeric(cells) == [i \in 1..Len(cells) |-> to_numeric_cell(cells[i])]

\* the routine a column of type f_type is cleaned with
routine(f_type, log, now, value, row_idx, col) ==
    CASE f_type = "number" -> clean_numeric(log, value, row_idx, col)
      [] f_type = "email"  -> clean_email(log, value, row_idx, col)
      [] f_type = "date"   -> clean_date(log, now, value, row_idx, col)

\* the row index handed to the routine for the cell at 0-based position i:
\* enumerate's i at line 504, the literal 0 at lines 517 and 521
row_arg(f_type, i) == IF f_type = "number" THEN i ELSE 0

RECURSIVE clean_cells(_, _, _, _, _, _, _)
\* the comprehension of lines 503-506 and the apply of lines 517, 521, from
\* cell i on: the cleaned cells so far, the log, and the exception that ended it
clean_cells(f_type, log, now, cells, col, i, out) ==
    IF i > Len(cells) THEN [out |-> out, log |-> log, exc |-> NoExc]
    ELSE LET r == routine(f_type, log, now, cells[i], row_arg(f_type, i - 1), col)
         IN  IF r.exc # NoExc THEN [out |-> out, log |-> r.log, exc |-> r.exc]
             ELSE clean_cells(f_type, r.log, now, cells, col, i + 1, Append(out, r.ret))

\* assigned leaving out the cells that came back null
assigned_drop_null(f_type, out) ==
    SelectSeq(IF f_type = "number" THEN to_numeric(out) ELSE out, LAMBDA v : v # Null)

\* what is assigned to df_cleaned[col] (lines 513, 517, 521)
assigned(f_type, out) == IF f_type = "number" THEN to_numeric(out) ELSE out

HasSalary(col) == Contains(Lower(col), << "s", "a", "l", "a", "r", "y" >>)

RECURSIVE salary_pass_all(_, _)
\* salary_pass coercing every column, whatever its name
salary_pass_all(tbl, k) ==
    IF k > Len(tbl.columns) THEN tbl
    ELSE salary_pass_all(SetColumn(tbl, tbl.columns[k], to_numeric(tbl.data[k])), k + 1)

RECURSIVE salary_pass(_, _)
\* lines 524-526 from column k on
salary_pass(tbl, k) ==
    IF k > Len(tbl.columns) THEN tbl
    ELSE IF HasSalary(tbl.columns[k])
        THEN salary_pass(SetColumn(tbl, tbl.columns[k], to_numeric(tbl.data[k])), k + 1)
    ELSE salary_pass(tbl, k + 1)

----------------------------------------------------------------------------
(* Inputs *)

Age == << "A", "g", "e" >>

SalaryGrade == << "S", "a", "l", "a", "r", "y", "_", "G", "r", "a", "d", "e" >>

Joined == << "J", "o", "i", "n", "e", "d" >>

Email == << "E", "m", "a", "i", "l" >>

ColumnLists == { << Age, SalaryGrade >>, << Joined, Email >> }

\* the rows an input table over these columns is made of
RowPool(columns) ==
    IF columns = << Age, SalaryGrade >>
    THEN { << Num(42, 0), Str(<< "A" >>) >>,
           << Str(<< " ", "N", "/", "A" >>), Str(<< "$", "7", ",", "0", "0", "0" >>) >> }
    ELSE { << Str(<< " ", "1", "/", "2", "/", "2", "0", "2", "4" >>), Null >>,
           << Str(<< "S", "o", "o", "n" >>), Str(<< "L", "i", "s", "i", "@", "e", "x" >>) >> }

\* the table whose rows are rs
TableOfRows(columns, rs) ==
    Table(columns, [k \in 1..Len(columns) |-> [i \in 1..Len(rs) |-> rs[i][k]]])

\* what a type map can say of a column
TagChoices(col) ==
    CASE col = Age         -> { "absent", "number" }
      [] col = SalaryGrade -> { "text", "number" }
      [] col = Joined      -> { "date", "boolean" }
      [] col = Email       -> { "absent", "email" }

Clocks ==
    { [today     |-> << "2", "0", "2", "4", "-", "0", "3", "-", "0", "1" >>,
       yesterday |-> << "2", "0", "2", "4", "-", "0", "2", "-", "2", "9" >>] }

\* the value a caller writes into a table it holds
Scribble == Str(<< "X" >>)

TypeMap(columns, ch) ==
    [c \in {columns[k] : k \in {j \in 1..Len(columns) : ch[j] # "absent"}} |->
        ch[CHOOSE k \in 1..Len(columns) : columns[k] = c]]

EmptyTable == Table(<< >>, << >>)

----------------------------------------------------------------------------
(* The pipeline as a state machine *)

\* DataCleaner() (lines 369-377); nothing has been cleaned yet
InitPipe ==
    /\ pc = "idle"
    /\ heap = << >>
    /\ df = 0
    /\ df_cleaned = 0
    /\ df_original = 0
    /\ field_types = << >>
    /\ colIdx = 0
    /\ lists = << << >>, << >> >>
    /\ cleaning_log = 1
    /\ held_log = 0
    /\ held_snapshot = << >>
    /\ input_snapshot = EmptyTable
    /\ produced = << >>
    /\ clock = CHOOSE c \in Clocks : TRUE
    /\ calls = 0
    /\ writes = 0

NoCall == [fn |-> "none", ret |-> Unset, log |-> << >>, exc |-> NoExc]

NoArgs == [value |-> Null, row_idx |-> 0, col_name |-> << >>, log |-> << >>,
           now |-> CHOOSE c \in Clocks : TRUE]

\* no column has been handed to detect_type
NoSeries == [name |-> << >>, values |-> << >>]

NoTag == "none"

Init ==
    /\ InitPipe
    /\ cell_in = NoArgs /\ cell_out = NoCall
    /\ series = NoSeries /\ detected = NoTag

\* clean_dataframe is entered with table T and type map M (lines 489-493)
Invoke(T, M, now) ==
    /\ pc \in {"idle", "returned", "raised"}
    /\ calls < MaxCalls
    \* nothing below reads the tables of the previous call, so the states after
    \* a caller's write add no successor here
    /\ writes = 0
    /\ LET r  == ResetLog(lists, cleaning_log, held_log)
           c1 == copy(<< T >>, 1)
           c2 == copy(c1.heap, 1)
       IN  /\ lists' = r.lists
           /\ cleaning_log' = r.id
           /\ heap' = c2.heap
           /\ df_cleaned' = c1.id
           /\ df_original' = c2.id
    /\ df' = 1
    /\ field_types' = M
    /\ input_snapshot' = T
    /\ produced' = << >>
    /\ clock' = now
    /\ colIdx' = 1
    /\ calls' = calls + 1
    /\ writes' = 0
    /\ pc' = "cols"
    /\ UNCHANGED << held_log, held_snapshot >>
    /\ UNCHANGED << cellVars, detVars >>

\* one turn of the loop of lines 495-521
CleanColumn ==
    /\ pc = "cols"
    /\ colIdx <= Len(heap[df].columns)
    /\ LET col == heap[df].columns[colIdx]
       IN  IF col \notin DOMAIN field_types
              \/ field_types[col] \notin {"number", "email", "date"}
           THEN /\ colIdx' = colIdx + 1
                /\ UNCHANGED << pc, heap, lists, produced >>
           ELSE LET before == lists[cleaning_log]
                    r == clean_cells(field_types[col], before, clock,
                                     Column(heap[df], col), col, 1, << >>)
                IN  /\ lists' = [lists EXCEPT ![cleaning_log] = r.log]
                    /\ produced' = produced \o SubSeq(r.log, Len(before) + 1, Len(r.log))
                    /\ IF r.exc # NoExc
                       THEN /\ pc' = "raised"
                            /\ UNCHANGED << heap, colIdx >>
                       ELSE /\ heap' = [heap EXCEPT ![df_cleaned] =
                                   SetColumn(@, col, assigned(field_types[col], r.out))]
                            /\ colIdx' = colIdx + 1
                            /\ pc' = "cols"
    /\ UNCHANGED << df, df_cleaned, df_original, field_types, cleaning_log, held_log,
                    held_snapshot, input_snapshot, clock, calls, writes >>
    /\ UNCHANGED << cellVars, detVars >>

\* the loop of lines 524-526
SalaryPass ==
    /\ pc = "cols"
    /\ colIdx > Len(heap[df].columns)
    /\ heap' = [heap EXCEPT ![df_cleaned] = salary_pass(@, 1)]
    /\ pc' = "salary"
    /\ UNCHANGED << df, df_cleaned, df_original, field_types, colIdx, lists,
                    cleaning_log, held_log, held_snapshot, input_snapshot, produced,
                    clock, calls, writes >>
    /\ UNCHANGED << cellVars, detVars >>

\* line 528; the caller keeps the three results (lines 778-780)
Return ==
    /\ pc = "salary"
    /\ pc' = "returned"
    /\ held_log' = cleaning_log
    /\ held_snapshot' = lists[cleaning_log]
    /\ UNCHANGED << heap, df, df_cleaned, df_original, field_types, colIdx, lists,
                    cleaning_log, input_snapshot, produced, clock, calls, writes >>
    /\ UNCHANGED << cellVars, detVars >>

\* the caller writes a cell of the cleaned table it was given
WriteCleaned(k, i) ==
    /\ pc = "returned"
    /\ writes < MaxWrites
    /\ heap' = [heap EXCEPT ![df_cleaned] = SetCell(@, @.columns[k], i, Scribble)]
    /\ writes' = writes + 1
    /\ UNCHANGED << pc, df, df_cleaned, df_original, field_types, colIdx, lists,
                    cleaning_log, held_log, held_snapshot, input_snapshot, produced,
                    clock, calls >>
    /\ UNCHANGED << cellVars, detVars >>

\* the caller writes a cell of the table it passed in
WriteInput(k, i) ==
    /\ pc = "returned"
    /\ writes < MaxWrites
    /\ heap' = [heap EXCEPT ![df] = SetCell(@, @.columns[k], i, Scribble)]
    /\ writes' = writes + 1
    /\ UNCHANGED << pc, df, df_cleaned, df_original, field_types, colIdx, lists,
                    cleaning_log, held_log, held_snapshot, input_snapshot, produced,
                    clock, calls >>
    /\ UNCHANGED << cellVars, detVars >>

InvokeAny ==
    \E columns \in ColumnLists, n \in 0..MaxRows, now \in Clocks :
        \E rs \in [1..n -> RowPool(columns)],
           t1 \in TagChoices(columns[1]), t2 \in TagChoices(columns[2]) :
            Invoke(TableOfRows(columns, rs), TypeMap(columns, << t1, t2 >>), now)

WriteCleanedAny ==
    \E k \in 1..2, i \in 1..MaxRows :
        /\ pc = "returned"
        /\ i <= Len(heap[df_cleaned].data[k])
        /\ WriteCleaned(k, i)

WriteInputAny ==
    \E k \in 1..2, i \in 1..MaxRows :
        /\ pc = "returned"
        /\ i <= Len(heap[df].data[k])
        /\ WriteInput(k, i)

Next ==
    \/ InvokeAny
    \/ CleanColumn
    \/ SalaryPass
    \/ Return
    \/ WriteCleanedAny
    \/ WriteInputAny

Spec == Init /\ [][Next]_vars

----------------------------------------------------------------------------
(* The cleaning routines called one cell at a time *)

AgeSalary == << "a", "g", "e", "_", "s", "a", "l", "a", "r", "y" >>

CellColumns == { Age, SalaryGrade, AgeSalary, Joined }

\* text met in number columns
NumberTexts ==
    { << " ", "N", "/", "A", " " >>,
      << "u", "n", "k", "n", "o", "w", "n" >>,
      << "-" >>,
      << " ", " ", "\t" >>,
      << "1", "5", "0" >>,
      << "$", "7", ",", "0", "0", "0" >>,
      << "FWYEN", "1", ",", "2", "0", "0", ".", "5" >>,
      << "YEN", "7", ",", "0", "0", "0" >>,
      << "-", "YEN", "5" >>,
      << "-", "$", "5" >>,
      << "a", "b", "c" >>,
      << "-", "5" >>,
      << "1", "2", ".", "5", "k", "g" >>,
      << "2", "0", "0", "0", "0", "0", "0", "0" >> }

\* text met in date columns
DateTexts ==
    { << "2", "0", "2", "4", "-", "0", "1", "-", "1", "5" >>,
      << "2", "0", "2", "4", "/", "1", "/", "5" >>,
      << "2", "0", "2", "4", ".", "1", ".", "5" >>,
      << "1", "/", "2", "/", "2", "0", "2", "4" >>,
      << " ", "0", "3", "-", "0", "4", "-", "2", "0", "2", "4", " " >>,
      << "1", "3", "/", "2", "/", "2", "0", "2", "4" >>,
      << "2", "/", "1", "3", "/", "2", "0", "2", "4" >>,
      << "1", "3", "/", "1", "4", "/", "2", "0", "2", "4" >>,
      << "S", "o", "o", "n" >>,
      << "T", "o", "d", "a", "y" >>,
      << "y", "e", "s", "t", "e", "r", "d", "a", "y" >> }

\* text met in email columns
EmailTexts ==
    { << "z", "h", "a", "n", "g", "#", "e", "x", ".", "c", "o", "m" >>,
      << "l", "i", "s", "i", "@", "e", "x" >>,
      << " ", "B", "o", "b", "@", "X", ".", "o", "r", "g", " " >>,
      << "a", "FWAT", "b", ".", "c", "o" >>,
      << "a", " ", "b", "@", "c", ".", "d", "e" >> }

CellValues ==
    { Null, Num(150, 0), Num(-5, 0), Num(75, 1) }
        \cup { Str(s) : s \in NumberTexts \cup DateTexts \cup EmailTexts }

\* an entry already in the log when the routine is called
EarlierEntry ==
    LogEntry(1, Joined, Str(<< "S", "o", "o", "n" >>), Null, "invalid_format",
             "valid_date_format", FixedHint("supported_formats"))

InitCell ==
    /\ InitPipe
    /\ cell_in \in [value : CellValues, row_idx : 0..(MaxRows - 1), col_name : CellColumns,
                    log : { << >>, << EarlierEntry >> }, now : Clocks]
    /\ cell_out = NoCall
    /\ series = NoSeries /\ detected = NoTag

Outcome(fn, r) == [fn |-> fn, ret |-> r.ret, log |-> r.log, exc |-> r.exc]

CallCleanDate ==
    /\ cell_out = NoCall
    /\ cell_out' = Outcome("clean_date",
           clean_date(cell_in.log, cell_in.now, cell_in.value, cell_in.row_idx, cell_in.col_name))
    /\ UNCHANGED << cell_in, pipeVars, detVars >>

CallCleanNumeric ==
    /\ cell_out = NoCall
    /\ cell_out' = Outcome("clean_numeric",
           clean_numeric(cell_in.log, cell_in.value, cell_in.row_idx, cell_in.col_name))
    /\ UNCHANGED << cell_in, pipeVars, detVars >>

CallCleanEmail ==
    /\ cell_out = NoCall
    /\ cell_out' = Outcome("clean_email",
           clean_email(cell_in.log, cell_in.value, cell_in.row_idx, cell_in.col_name))
    /\ UNCHANGED << cell_in, pipeVars, detVars >>

NextCell ==
    \/ CallCleanDate
    \/ CallCleanNumeric
    \/ CallCleanEmail

SpecCell == InitCell /\ [][NextCell]_vars

----------------------------------------------------------------------------
(* FieldTypeDetector.detect_type *)

\* series.dropna()
dropna(values) == SelectSeq(values, LAMBDA v : ~ isna(v))

\* the .sum() of a mask: how many positions of the column it holds at
sum(mask) == Cardinality(mask)

\* count / len > tenths / 10 with >= in the place of >
exceeds_or_equal(count, len, tenths) == count * 10 >= tenths * len

\* count / len(non_null) > 0.8, 0.7, 0.6: the quotient of two small whole
\* numbers compared in exact arithmetic
exceeds(count, len, tenths) == count * 10 > tenths * len

\* the k-th of date_patterns tried on the text s
date_patterns(k, s) ==
    CASE k = 1 -> match_ymd(s) # {}
      [] k = 2 -> match_dmy(s) # {}
      [] k = 3 -> match_dot(s) # {}

Alpha == {UpperAlpha[i] : i \in DOMAIN UpperAlpha} \cup {LowerAlpha[i] : i \in DOMAIN LowerAlpha}

\* re.match of [a-zA-Z0-9._%+-]+[@#][a-zA-Z0-9.-]+\.[a-zA-Z]{2,} at the start
\* of s; the pattern is not anchored at its end
email_like_pattern(s) ==
    \E a, d \in 1..Len(s) :
        /\ 1 < a /\ a + 1 < d /\ d + 2 <= Len(s)
        /\ \A i \in 1..(a - 1) : s[i] \in Alpha \cup Digits \cup {".", "_", "%", "+", "-"}
        /\ s[a] \in {"@", "#"}
        /\ \A i \in (a + 1)..(d - 1) : s[i] \in Alpha \cup Digits \cup {".", "-"}
        /\ s[d] = "."
        /\ s[d + 1] \in Alpha /\ s[d + 2] \in Alpha

bool_values ==
    { << "t", "r", "u", "e" >>, << "f", "a", "l", "s", "e" >>, << "y", "e", "s" >>,
      << "n", "o" >>, << "1" >>, << "0" >>, << "y" >>, << "n" >>, << "T" >>, << "F" >> }

detect_type(name, values) ==
    LET non_null      == dropna(values)
        at            == 1..Len(non_null)
        numeric_count == sum({i \in at : ~ isna(to_numeric_cell(non_null[i]))})
        date_count    == sum({i \in at : date_patterns(1, str(non_null[i]))})
                           + sum({i \in at : date_patterns(2, str(non_null[i]))})
                           + sum({i \in at : date_patterns(3, str(non_null[i]))})
        email_hits    == sum({i \in at : /\ non_null[i].t = "str"
                                         /\ email_like_pattern(non_null[i].s)})
        bool_count    == sum({i \in at : Lower(str(non_null[i])) \in bool_values})
    IN  IF Len(non_null) = 0 THEN "text"
        ELSE IF exceeds(numeric_count, Len(non_null), 8) THEN "number"
        ELSE IF exceeds(date_count, Len(non_null), 7) THEN "date"
        ELSE IF \/ Contains(Lower(name), << "e", "m", "a", "i", "l" >>)
                \/ Contains(Lower(name), << "m", "a", "i", "l" >>) THEN "email"
        ELSE IF exceeds(email_hits, Len(non_null), 6) THEN "email"
        ELSE IF exceeds(bool_count, Len(non_null), 8) THEN "boolean"
        ELSE "text"

Gmail == << "G", "m", "a", "i", "l" >>

SeriesNames == { Age, Email, Gmail }

\* values met in the columns handed to detect_type
SeriesValues ==
    { Str(<< "1", "5", "0" >>),
      Str(<< "1" >>),
      Num(42, 0),
      Str(<< "2", "0", "2", "4", "-", "0", "1", "-", "1", "5" >>),
      Str(<< "1", "/", "2", "/", "2", "0", "2", "4" >>),
      Str(<< "2", "0", "2", "4", ".", "1", ".", "5" >>),
      Str(<< "z", "h", "a", "n", "g", "#", "e", "x", ".", "c", "o", "m" >>),
      Str(<< "L", "i", "s", "i", "@", "e", "x" >>),
      Str(<< "Y", "e", "s" >>),
      Str(<< "T" >>),
      Str(<< "a", "b", "c" >>) }

\* a column of z nulls, then k cells a, then cells b up to n non-null cells
Fill(a, b, k, n, z) ==
    [i \in 1..(z + n) |-> IF i <= z THEN Null ELSE IF i <= z + k THEN a ELSE b]

InitDetect ==
    /\ InitPipe
    /\ cell_in = NoArgs /\ cell_out = NoCall
    /\ \E name \in SeriesNames, a, b \in SeriesValues, n \in 0..MaxLen, z \in 0..1 :
          \E k \in 0..n : series = [name |-> name, values |-> Fill(a, b, k, n, z)]
    /\ detected = NoTag

\* types[col] = detector.detect_type(df[col])
CallDetectType ==
    /\ detected = NoTag
    /\ detected' = detect_type(series.name, series.values)
    /\ UNCHANGED << series, pipeVars, cellVars >>

NextDetect == CallDetectType

SpecDetect == InitDetect /\ [][NextDetect]_vars

----------------------------------------------------------------------------
(* Properties of clean_dataframe, under Spec *)

Running == pc \in {"cols", "salary", "returned", "raised"}

SameShape(tbl, T) ==
    /\ tbl.columns = T.columns
    /\ Len(tbl.data) = Len(T.data)
    /\ \A k \in 1..Len(tbl.data) : Len(tbl.data[k]) = RowCount(T)

\* C1: the cleaned and the original table clean_dataframe returns have the
\* columns of the input table, in its order, and its number of rows.
C1_ShapePreserved ==
    pc = "returned" =>
        /\ SameShape(heap[df_cleaned], input_snapshot)
        /\ SameShape(heap[df_original], input_snapshot)

\* a call returned a table of MaxRows rows in which a cell was nulled
C1_Witness ==
    /\ pc = "returned"
    /\ writes = 0
    /\ RowCount(input_snapshot) = MaxRows
    /\ \E k \in 1..2, i \in 1..MaxRows :
          /\ input_snapshot.data[k][i] # Null
          /\ heap[df_cleaned].data[k][i] = Null

\* C2: from the invocation on, through every step of the pipeline and every
\* later write to the cleaned or the input table, the original table holds
\* the cells the input table held at invocation.
C2_OriginalUntouched == Running => heap[df_original] = input_snapshot

\* the pipeline changed the cleaned table and the caller then wrote to it
C2_Witness ==
    /\ pc = "returned"
    /\ writes > 0
    /\ \E k \in 1..2, i \in 1..RowCount(input_snapshot) :
          /\ heap[df_cleaned].data[k][i] = Scribble
          /\ \E j \in 1..RowCount(input_snapshot) :
                heap[df_cleaned].data[k][j] \notin {Scribble, input_snapshot.data[k][j]}

PassThrough(col) ==
    \/ col \notin DOMAIN field_types
    \/ field_types[col] \in {"text", "boolean"}

\* C3 as written: every column absent from the type map or tagged text or
\* boolean is returned identical to the original column, whatever its name.
C3_Original ==
    (pc = "returned" /\ writes = 0) =>
        \A k \in 1..Len(input_snapshot.columns) :
            PassThrough(input_snapshot.columns[k]) =>
                heap[df_cleaned].data[k] = heap[df_original].data[k]

\* C3 amended: such a column is returned identical unless its name contains
\* "salary" (in any case); a pass-through column whose name does keeps its
\* null and numeric cells, and each text cell becomes a number or null.
C3_PassThrough ==
    (pc = "returned" /\ writes = 0) =>
        \A k \in 1..Len(input_snapshot.columns) :
            PassThrough(input_snapshot.columns[k]) =>
                IF ~ HasSalary(input_snapshot.columns[k])
                THEN heap[df_cleaned].data[k] = heap[df_original].data[k]
                ELSE /\ Len(heap[df_cleaned].data[k]) = Len(heap[df_original].data[k])
                     /\ \A i \in 1..Len(heap[df_original].data[k]) :
                           IF heap[df_original].data[k][i].t = "str"
                           THEN heap[df_cleaned].data[k][i].t \in {"num", "null"}
                           ELSE heap[df_cleaned].data[k][i] = heap[df_original].data[k][i]

\* a table came back with an untyped column of text left as it was and a
\* text-typed salary column whose text was replaced
C3_Witness ==
    /\ pc = "returned"
    /\ writes = 0
    /\ input_snapshot.columns = << Age, SalaryGrade >>
    /\ Age \notin DOMAIN field_types
    /\ field_types[SalaryGrade] = "text"
    /\ \E i \in 1..RowCount(input_snapshot) :
          /\ heap[df_cleaned].data[1][i].t = "str"
          /\ heap[df_original].data[2][i].t = "str"
          /\ heap[df_cleaned].data[2][i] = Null

\* C4: while and after clean_dataframe runs, the instance's log holds exactly
\* the entries appended since that invocation began, and the log the caller
\* kept from an earlier return still holds what it held when it was returned.
C4_LogPerInvocation ==
    /\ Running => lists[cleaning_log] = produced
    /\ held_log # 0 => lists[held_log] = held_snapshot

\* a second invocation logged entries while the caller still held the
\* non-empty log of the first
C4_Witness ==
    /\ calls >= 2
    /\ pc = "salary"
    /\ held_log # 0
    /\ held_log # cleaning_log
    /\ held_snapshot # << >>
    /\ produced # << >>
    /\ produced # held_snapshot

\* C5 as written: clean_dataframe never ends by raising.
C5_Original == pc # "raised"

\* C6: every entry of the log names a row between 1 and the row count of the
\* input table and a column of the input table.
C6_LogRefersToInput ==
    Running =>
        \A n \in 1..Len(lists[cleaning_log]) :
            LET e == lists[cleaning_log][n]
            IN  /\ 1 <= e.row
                /\ e.row <= RowCount(input_snapshot)
                /\ \E k \in 1..Len(input_snapshot.columns) :
                      input_snapshot.columns[k] = e.column

\* a call over MaxRows rows returned a log with entries from two columns
C6_Witness ==
    /\ pc = "returned"
    /\ RowCount(input_snapshot) = MaxRows
    /\ \E a, b \in 1..Len(lists[cleaning_log]) :
          lists[cleaning_log][a].column # lists[cleaning_log][b].column

\* C8 as written: for every returned log entry whose cleaned field is null, a
\* cell of that column holding the entry's raw value is null in the cleaned
\* table.
C8_Original ==
    (pc = "returned" /\ writes = 0) =>
        \A n \in 1..Len(lists[cleaning_log]) :
            LET e == lists[cleaning_log][n]
            IN  e.cleaned = Null =>
                    \E i \in 1..RowCount(input_snapshot) :
                        /\ Column(input_snapshot, e.column)[i] = e.raw
                        /\ Column(heap[df_cleaned], e.column)[i] = Null

----------------------------------------------------------------------------
(* Properties of the cleaning routines, under SpecCell *)

\* the entries the call appended
Appended == SubSeq(cell_out.log, Len(cell_in.log) + 1, Len(cell_out.log))

IsBlank(v) == v = Null \/ (v.t = "str" /\ Strip(v.s) = << >>)

IsPlaceholder(v) == v.t = "str" /\ Lower(Strip(v.s)) \in null_keywords

\* C9 as written: clean_numeric turns a placeholder word into null and one
\* placeholder_value entry, and a null or blank cell into null and no entry.
C9_Original ==
    cell_out.fn = "clean_numeric" =>
        /\ IsPlaceholder(cell_in.value) =>
              /\ cell_out.exc = NoExc
              /\ cell_out.ret = Null
              /\ Len(Appended) = 1
              /\ Appended[1].issue = "placeholder_value"
        /\ IsBlank(cell_in.value) =>
              /\ cell_out.exc = NoExc
              /\ cell_out.ret = Null
              /\ cell_out.log = cell_in.log

\* the number clean_numeric extracts from a value that is neither blank nor a
\* placeholder, Null when it finds none
Extracted(v) ==
    LET tok == clean_num_match(
                   RemoveChar(RemoveChar(RemoveChar(Lower(Strip(str(v))), "$"), "FWYEN"), ","))
    IN  IF tok = << >> THEN Null ELSE float(tok)

Violates(n, col) ==
    \E k \in 1..Len(rules) :
        /\ Contains(Lower(col), rules[k].key)
        /\ (NumLess(n, rules[k].min) \/ NumGreater(n, rules[k].max))

\* C10 as written: a number that violates a rule matching the column name
\* comes back null with one out_of_range entry; a number that violates none
\* comes back itself with no entry.
C10_Original ==
    (/\ cell_out.fn = "clean_numeric"
     /\ ~ IsBlank(cell_in.value)
     /\ ~ IsPlaceholder(cell_in.value)
     /\ Extracted(cell_in.value) # Null) =>
        IF Violates(Extracted(cell_in.value), cell_in.col_name)
        THEN /\ cell_out.exc = NoExc
             /\ cell_out.ret = Null
             /\ Len(Appended) = 1
             /\ Appended[1].issue = "out_of_range"
        ELSE /\ cell_out.exc = NoExc
             /\ cell_out.ret = Extracted(cell_in.value)
             /\ cell_out.log = cell_in.log

\* the text with every character of marks taken out
Without(s, marks) == SelectSeq(s, LAMBDA x : x \notin marks)

\* [-+]?digits, optionally followed by a point and digits
IsDecimal(s) ==
    LET body == IF s # << >> /\ s[1] \in {"-", "+"} THEN Tail(s) ELSE s
        dots == {i \in 1..Len(body) : body[i] = "."}
    IN  /\ body # << >>
        /\ Cardinality(dots) <= 1
        /\ \A i \in 1..Len(body) : body[i] \in Digits \cup {"."}
        /\ \A i \in dots : i > 1 /\ i < Len(body)

\* the number a decimal literal denotes
DecimalValue(s) ==
    LET body == IF s[1] \in {"-", "+"} THEN Tail(s) ELSE s
        dots == {i \in 1..Len(body) : body[i] = "."}
        frac == IF dots = {} THEN 0 ELSE Len(body) - (CHOOSE i \in dots : TRUE)
        mag  == DigitsToNat(Without(body, {"."}))
    IN  Num(IF s[1] = "-" THEN 0 - mag ELSE mag, frac)

\* the number under the decoration, for the given set of markers
Undecorated(v, marks) == Without(Strip(v.s), marks)

\* C11 as written, the yen sign being U+00A5 as in the specification: a
\* decimal number decorated with $, U+00A5 and commas comes back as that
\* number with no entry when no rule matching the column excludes it.
C11_Original ==
    (/\ cell_out.fn = "clean_numeric"
     /\ cell_in.value.t = "str"
     /\ IsDecimal(Undecorated(cell_in.value, {"$", "YEN", ","}))
     /\ ~ Violates(DecimalValue(Undecorated(cell_in.value, {"$", "YEN", ","})),
                    cell_in.col_name)) =>
        /\ cell_out.exc = NoExc
        /\ cell_out.ret = DecimalValue(Undecorated(cell_in.value, {"$", "YEN", ","}))
        /\ cell_out.log = cell_in.log

\* the literal left once $, the full-width yen sign U+FFE5 and commas are
\* taken out, a U+00A5 being tolerated only in front of the whole literal
Core(v) ==
    LET u == Undecorated(v, {"$", "FWYEN", ","})
    IN  IF u # << >> /\ u[1] = "YEN" THEN Tail(u) ELSE u

\* C11: a decimal number decorated with $, the full-width yen sign U+FFE5
\* and thousands commas, or preceded by a U+00A5, comes back from
\* clean_numeric as that number with no log entry whenever no range rule
\* matching the column name excludes it.
C11_CurrencyStripped ==
    (/\ cell_out.fn = "clean_numeric"
     /\ cell_in.value.t = "str"
     /\ IsDecimal(Core(cell_in.value))
     /\ ~ Violates(DecimalValue(Core(cell_in.value)), cell_in.col_name)) =>
        /\ cell_out.exc = NoExc
        /\ cell_out.ret = DecimalValue(Core(cell_in.value))
        /\ cell_out.log = cell_in.log

\* "$7,000" in the salary column came back as 7000 and nothing was logged
C11_Witness ==
    /\ cell_out.fn = "clean_numeric"
    /\ cell_in.value = Str(<< "$", "7", ",", "0", "0", "0" >>)
    /\ cell_in.col_name = SalaryGrade
    /\ cell_out.ret = Num(7000, 0)
    /\ cell_out.log = cell_in.log

\* the input trimmed and lowercased, '#' and full-width '@' read as '@'
Repaired(v) ==
    LET t == Strip(str(v))
    IN  [i \in 1..Len(t) |-> IF t[i] \in {"#", "FWAT", "@"} THEN "@" ELSE LowerChar(t[i])]

\* local@domain.tld: one @ after a non-empty local part, then a domain, a
\* point and a suffix, none of them empty, and no white space anywhere
HasShape(s) ==
    \E a, d \in 1..Len(s) :
        /\ s[a] = "@" /\ s[d] = "."
        /\ 1 < a /\ a + 1 < d /\ d < Len(s)
        /\ \A i \in 1..Len(s) : (s[i] = "@" => i = a) /\ s[i] \notin Whitespace

\* C12: for a non-null cell clean_email returns the input lowercased,
\* trimmed and with '#' and full-width '@' replaced by '@', valid or not; it
\* logs nothing when that string has the shape local@domain.tld, and exactly
\* one invalid_email entry whose cleaned field is that string when it has not.
C12_EmailRepaired ==
    (cell_out.fn = "clean_email" /\ ~ isna(cell_in.value)) =>
        /\ cell_out.exc = NoExc
        /\ cell_out.ret = Str(Repaired(cell_in.value))
        /\ IF HasShape(Repaired(cell_in.value))
           THEN cell_out.log = cell_in.log
           ELSE /\ Len(cell_out.log) = Len(cell_in.log) + 1
                /\ SubSeq(cell_out.log, 1, Len(cell_in.log)) = cell_in.log
                /\ cell_out.log[Len(cell_out.log)].issue = "invalid_email"
                /\ cell_out.log[Len(cell_out.log)].cleaned = Str(Repaired(cell_in.value))

\* "zhang#ex.com" came back repaired and nothing was logged
C12_Witness ==
    /\ cell_out.fn = "clean_email"
    /\ cell_in.value = Str(<< "z", "h", "a", "n", "g", "#", "e", "x", ".", "c", "o", "m" >>)
    /\ cell_out.ret = Str(<< "z", "h", "a", "n", "g", "@", "e", "x", ".", "c", "o", "m" >>)
    /\ cell_out.log = cell_in.log

\* the text clean_date examines
DateText(v) == Lower(Strip(v.s))

\* where the separators of a three-field date stand, << 0, 0 >> when the
\* text is not three runs of digits around two separators out of seps
SepAt(s, seps) ==
    LET at == {i \in 1..Len(s) : s[i] \notin Digits}
    IN  IF /\ Cardinality(at) = 2
           /\ \A i \in at : s[i] \in seps /\ 1 < i /\ i < Len(s)
           /\ \A i, j \in at : i # j => (i + 1 # j)
        THEN LET a == CHOOSE i \in at : \A j \in at : i <= j
                 b == CHOOSE i \in at : \A j \in at : i >= j
             IN  << a, b >>
        ELSE << 0, 0 >>

Field(s, seps, n) ==
    LET ab == SepAt(s, seps)
    IN  CASE n = 1 -> SubSeq(s, 1, ab[1] - 1)
          [] n = 2 -> SubSeq(s, ab[1] + 1, ab[2] - 1)
          [] n = 3 -> SubSeq(s, ab[2] + 1, Len(s))

\* D[-/]M[-/]YYYY
IsDayMonthYear(v) ==
    /\ v.t = "str"
    /\ SepAt(DateText(v), {"-", "/"}) # << 0, 0 >>
    /\ Len(Field(DateText(v), {"-", "/"}, 1)) \in {1, 2}
    /\ Len(Field(DateText(v), {"-", "/"}, 2)) \in {1, 2}
    /\ Len(Field(DateText(v), {"-", "/"}, 3)) = 4

\* YYYY[-/]M[-/]D or YYYY.M.D, seps telling which
IsYearFirst(v, seps) ==
    /\ v.t = "str"
    /\ SepAt(DateText(v), seps) # << 0, 0 >>
    /\ Len(Field(DateText(v), seps, 1)) = 4
    /\ Len(Field(DateText(v), seps, 2)) \in {1, 2}
    /\ Len(Field(DateText(v), seps, 3)) \in {1, 2}

Pad2(f) == IF Len(f) = 1 THEN << "0" >> \o f ELSE f

Iso(y, m, d) == Str(y \o << "-" >> \o Pad2(m) \o << "-" >> \o Pad2(d))

P1(v) == Field(DateText(v), {"-", "/"}, 1)

P2(v) == Field(DateText(v), {"-", "/"}, 2)

Year(v) == Field(DateText(v), {"-", "/"}, 3)

\* C13: for a cell matching D[-/]M[-/]YYYY whose leading components p1 and p2
\* are both <= 12, clean_date returns the zero-padded YYYY-p1-p2 and appends
\* exactly one ambiguous_date entry whose cleaned field is the returned string
\* and whose hint names both readings, p1 as month and p2 as month.
C13_AmbiguousDate ==
    (/\ cell_out.fn = "clean_date"
     /\ IsDayMonthYear(cell_in.value)
     /\ DigitsToNat(P1(cell_in.value)) <= 12
     /\ DigitsToNat(P2(cell_in.value)) <= 12) =>
        /\ cell_out.exc = NoExc
        /\ cell_out.ret = Iso(Year(cell_in.value), P1(cell_in.value), P2(cell_in.value))
        /\ Len(cell_out.log) = Len(cell_in.log) + 1
        /\ SubSeq(cell_out.log, 1, Len(cell_in.log)) = cell_in.log
        /\ cell_out.log[Len(cell_out.log)].issue = "ambiguous_date"
        /\ cell_out.log[Len(cell_out.log)].cleaned = cell_out.ret
        /\ cell_out.log[Len(cell_out.log)].hint.kind = "ambiguous"
        /\ cell_out.log[Len(cell_out.log)].hint.args =
              << P1(cell_in.value), P2(cell_in.value), P2(cell_in.value), P1(cell_in.value) >>

\* " 03-04-2024 " came back as 2024-03-04 with one ambiguous_date entry
C13_Witness ==
    /\ cell_out.fn = "clean_date"
    /\ cell_in.value = Str(<< " ", "0", "3", "-", "0", "4", "-", "2", "0", "2", "4", " " >>)
    /\ cell_out.ret = Str(<< "2", "0", "2", "4", "-", "0", "3", "-", "0", "4" >>)
    /\ Len(Appended) = 1
    /\ Appended[1].issue = "ambiguous_date"

\* C14: for a cell in year-first form YYYY[-/]M[-/]D or YYYY.M.D clean_date
\* returns YYYY-MM-DD with month and day padded to two digits and appends no
\* entry, also when month and day are both <= 12; a value already written
\* YYYY-MM-DD is returned unchanged.
C14_YearFirst ==
    cell_out.fn = "clean_date" =>
        \A seps \in { {"-", "/"}, {"."} } :
            IsYearFirst(cell_in.value, seps) =>
                /\ cell_out.exc = NoExc
                /\ cell_out.ret = Iso(Field(DateText(cell_in.value), seps, 1),
                                      Field(DateText(cell_in.value), seps, 2),
                                      Field(DateText(cell_in.value), seps, 3))
                /\ cell_out.log = cell_in.log
                /\ (/\ Len(cell_in.value.s) = 10
                    /\ cell_in.value.s[5] = "-"
                    /\ cell_in.value.s[8] = "-") => cell_out.ret = cell_in.value

\* "2024/1/5", month and day both <= 12, came back padded and unlogged
C14_Witness ==
    /\ cell_out.fn = "clean_date"
    /\ cell_in.value = Str(<< "2", "0", "2", "4", "/", "1", "/", "5" >>)
    /\ cell_out.ret = Str(<< "2", "0", "2", "4", "-", "0", "1", "-", "0", "5" >>)
    /\ cell_out.log = cell_in.log

\* C17 as written: for a cell matching D[-/]M[-/]YYYY whose leading
\* components are not both <= 12, clean_date appends no entry and returns the
\* ISO string whose month is the leading component that is <= 12 and whose
\* day is the other one, so that the month returned lies in 1..12.
C17_Original ==
    (/\ cell_out.fn = "clean_date"
     /\ IsDayMonthYear(cell_in.value)
     /\ ~ (/\ DigitsToNat(P1(cell_in.value)) <= 12
           /\ DigitsToNat(P2(cell_in.value)) <= 12)) =>
        /\ cell_out.exc = NoExc
        /\ cell_out.log = cell_in.log
        /\ \E pick \in { << P1(cell_in.value), P2(cell_in.value) >>,
                          << P2(cell_in.value), P1(cell_in.value) >> } :
              /\ DigitsToNat(pick[1]) \in 1..12
              /\ cell_out.ret = Iso(Year(cell_in.value), pick[1], pick[2])

\* C15 as written: every entry of the log carries, as row, the 1-based
\* position in the input table of the cell whose raw value it records.
C15_Original ==
    Running =>
        \A n \in 1..Len(lists[cleaning_log]) :
            LET e == lists[cleaning_log][n]
            IN  /\ e.row \in 1..RowCount(input_snapshot)
                /\ \E k \in 1..Len(input_snapshot.columns) :
                      /\ input_snapshot.columns[k] = e.column
                      /\ input_snapshot.data[k][e.row] = e.raw

----------------------------------------------------------------------------
(* Properties of detect_type, under SpecDetect *)

NumericValues == { Str(<< "1", "5", "0" >>), Str(<< "1" >>), Num(42, 0) }

DateValues ==
    { Str(<< "2", "0", "2", "4", "-", "0", "1", "-", "1", "5" >>),
      Str(<< "1", "/", "2", "/", "2", "0", "2", "4" >>),
      Str(<< "2", "0", "2", "4", ".", "1", ".", "5" >>) }

EmailLikeValues == { Str(<< "z", "h", "a", "n", "g", "#", "e", "x", ".", "c", "o", "m" >>) }

BooleanWords == { Str(<< "Y", "e", "s" >>), Str(<< "1" >>) }

MailNames == { Email, Gmail }

\* how many cells of the column lie in a class of values
In(class) == Cardinality({i \in 1..Len(series.values) : series.values[i] \in class})

NonNull == Cardinality({i \in 1..Len(series.values) : series.values[i] # Null})

\* the tag of the first rule that holds, every threshold being strict
FirstRule ==
    IF NonNull = 0 THEN "text"
    ELSE IF 5 * In(NumericValues) > 4 * NonNull THEN "number"
    ELSE IF 10 * In(DateValues) > 7 * NonNull THEN "date"
    ELSE IF series.name \in MailNames THEN "email"
    ELSE IF 5 * In(EmailLikeValues) > 3 * NonNull THEN "email"
    ELSE IF 5 * In(BooleanWords) > 4 * NonNull THEN "boolean"
    ELSE "text"

\* C16: detect_type returns the tag of the first rule that holds, in the
\* order no non-null value -> text, numeric fraction > 0.8 -> number, date
\* fraction > 0.7 -> date, name containing "email" or "mail" -> email, email-like
\* fraction > 0.6 -> email, boolean-word fraction > 0.8 -> boolean, otherwise
\* text; the fractions are taken over the non-null values and a fraction equal
\* to its threshold does not satisfy the rule.
C16_FirstRuleWins == detected # NoTag => detected = FirstRule

\* an email-named column with exactly 0.8 of its non-null values numeric, and
\* a null besides, was tagged email by its name and not number
C16_Witness ==
    /\ detected = "email"
    /\ series.name = Email
    /\ Len(series.values) > NonNull
    /\ NonNull > 0
    /\ 5 * In(NumericValues) = 4 * NonNull

====
